---- MODULE Spec2Model ----
(***************************************************************************)
(* A model of scrape_phivolcs.py: the PHIVOLCS earthquake table scraper.   *)
(*                                                                         *)
(* The model follows the program from the point where pandas.read_html has *)
(* parsed a page into a list of tables.  A table is a record               *)
(* [cols, rows]; a row is a sequence of `cols` cells; a cell is the text   *)
(* of the cell, or NaN for a cell read_html left missing.                  *)
(*                                                                         *)
(* Two specifications are defined:                                         *)
(*   Spec      the whole run (scrape_multiple_years): years, months,       *)
(*             fetches, cleaning and files;                                *)
(*   SpecCore  the table pipeline alone (selection, row filters, cleaner)  *)
(*             applied to documents drawn from a bounded universe.         *)
(***************************************************************************)
EXTENDS Integers, Sequences, FiniteSets, TLC

VARIABLES
    now,                      \* the clock: [year, month], datetime.now()
    years_back,               \* parameter of scrape_multiple_years
    pc,                       \* position of the run
    year,                     \* the year scrape_year_data is working on
    mi,                       \* position of the month loop, 1..13
    tables,                   \* the tables read_html gave for the last page parsed
    df,                       \* the result of the last month attempt
    all_data,                 \* scrape_year_data: tables of the successful months
    successful_months,
    failed_months,
    current_month_found,
    lastOutcome,              \* what the last month step's archive request met
    lastFetch,                \* the requests the last month step issued
    anomalies,                \* month attempts not answered by the usual page
    combined_df,              \* the cleaner's valid rows (last year cleaned)
    removed_nan_rows,
    removed_null_island_rows,
    files,                    \* files on disk: name key |-> records
    all_years_data,
    scrape_summary,
    combined_all

vars == <<now, years_back, pc, year, mi, tables, df, all_data, successful_months,
          failed_months, current_month_found, lastOutcome, lastFetch, anomalies,
          combined_df, removed_nan_rows, removed_null_island_rows, files,
          all_years_data, scrape_summary, combined_all>>

(***************************************************************************)
(* Bounds of the model.                                                    *)
(***************************************************************************)
MaxYearsBack == 2      \* years_back ranges over 1..MaxYearsBack
MaxAnomalies == 1      \* month attempts of a run not answered by UsualPage
MaxTables == 2         \* tables in a document of SpecCore
MaxRows == 2           \* rows of a table of SpecCore

MONTH_NAMES == <<"January", "February", "March", "April", "May", "June",
                 "July", "August", "September", "October", "November", "December">>

(***************************************************************************)
(* Text.  TLC's strings support Len, SubSeq, Tail and \o.                  *)
(***************************************************************************)
Char(s, i) == SubSeq(s, i, i)

UpperLetters == "ABCDEFGHIJKLMNOPQRSTUVWXYZ"
LowerLetters == "abcdefghijklmnopqrstuvwxyz"
DigitChars == "0123456789"

IsUpper(c) == \E k \in 1..26 : Char(UpperLetters, k) = c
IsLower(c) == \E k \in 1..26 : Char(LowerLetters, k) = c
IsDigit(c) == \E k \in 1..10 : Char(DigitChars, k) = c

\* str.lower(), and the effect of case=False on both sides of a match
LowerChar(c) ==
    IF IsUpper(c)
    THEN Char(LowerLetters, CHOOSE k \in 1..26 : Char(UpperLetters, k) = c)
    ELSE c

RECURSIVE Lower(_)
Lower(s) == IF Len(s) = 0 THEN "" ELSE LowerChar(Char(s, 1)) \o Lower(Tail(s))

\* str.strip(): leading and trailing blanks removed
RECURSIVE LStrip(_)
LStrip(s) == IF Len(s) > 0 /\ Char(s, 1) = " " THEN LStrip(Tail(s)) ELSE s

RECURSIVE RStrip(_)
RStrip(s) ==
    IF Len(s) > 0 /\ Char(s, Len(s)) = " " THEN RStrip(SubSeq(s, 1, Len(s) - 1)) ELSE s

Strip(s) == RStrip(LStrip(s))

\* One alternative of a regular expression made of literal characters and
\* ".", which stands for any character, matched at position i of s.
ReMatchAt(pat, s, i) ==
    /\ i + Len(pat) - 1 <= Len(s)
    /\ \A k \in 1..Len(pat) :
          Char(pat, k) = "." \/ Char(pat, k) = Char(s, i + k - 1)

\* re.search of the alternation alts[1]|alts[2]|... in s
ReSearch(alts, s) ==
    \E a \in 1..Len(alts) : \E i \in 1..Len(s) : ReMatchAt(alts[a], s, i)

\* Series.str.contains(pat, case=False)
ContainsNoCase(alts, s) ==
    ReSearch([a \in 1..Len(alts) |-> Lower(alts[a])], Lower(s))

\* Series.str.match(r'^[A-Z][a-z]{2}-\d{2}$')
MatchMonthAbbrev(s) ==
    /\ Len(s) = 6
    /\ IsUpper(Char(s, 1))
    /\ IsLower(Char(s, 2))
    /\ IsLower(Char(s, 3))
    /\ Char(s, 4) = "-"
    /\ IsDigit(Char(s, 5))
    /\ IsDigit(Char(s, 6))

(***************************************************************************)
(* Cells and numbers.                                                      *)
(***************************************************************************)
\* The missing-value marker of a cell.  read_html reads the texts "", "nan",
\* "NaN", "NA", ... as missing, and astype(str) renders a missing cell "nan".
NaN == "nan"

IsNa(c) == c = NaN

\* astype(str) of a cell
AsStr(c) == c

\* A number is a decimal m * 10^(-e), or the float NaN.
NaNNum == [nan |-> TRUE, m |-> 0, e |-> 0]

RECURSIVE Canon(_, _)
Canon(m, e) ==
    IF e > 0 /\ m % 10 = 0 THEN Canon(m \div 10, e - 1)
    ELSE [nan |-> FALSE, m |-> m, e |-> e]

Dec(m, e) == Canon(m, e)

DigitVal(c) == (CHOOSE k \in 1..10 : Char(DigitChars, k) = c) - 1

RECURSIVE DigitsVal(_)
DigitsVal(s) ==
    IF Len(s) = 0 THEN 0
    ELSE DigitsVal(SubSeq(s, 1, Len(s) - 1)) * 10 + DigitVal(Char(s, Len(s)))

AllDigits(s) == \A i \in 1..Len(s) : IsDigit(Char(s, i))

\* A variant of ParseNumeric that reads the number in front of a trailing
\* hemisphere letter ("14.5N" as 14.5).
ParseNumericLenient(c) ==
    LET s    == AsStr(c)
        cut  == IF Len(s) > 1 /\ Char(s, Len(s)) \in {"N", "S", "E", "W"}
                THEN SubSeq(s, 1, Len(s) - 1) ELSE s
        neg  == Len(cut) > 0 /\ Char(cut, 1) = "-"
        body == IF Len(cut) > 0 /\ Char(cut, 1) \in {"+", "-"} THEN Tail(cut) ELSE cut
        dots == {i \in 1..Len(body) : Char(body, i) = "."}
        dot  == IF dots = {} THEN Len(body) + 1 ELSE CHOOSE i \in dots : TRUE
        ip   == SubSeq(body, 1, dot - 1)
        fp   == SubSeq(body, dot + 1, Len(body))
    IN  IF /\ Cardinality(dots) <= 1
           /\ AllDigits(ip)
           /\ AllDigits(fp)
           /\ Len(ip) + Len(fp) > 0
        THEN Canon((IF neg THEN -1 ELSE 1) * DigitsVal(ip \o fp), Len(fp))
        ELSE NaNNum

\* pd.to_numeric(..., errors='coerce') on one cell: an optional sign, digits
\* with at most one decimal point and at least one digit; anything else
\* becomes NaN.  (Exponents, "inf" and digit separators do not occur in the
\* cells of this model.)
ParseNumeric(c) ==
    LET s    == AsStr(c)
        sgn  == Len(s) > 0 /\ Char(s, 1) \in {"+", "-"}
        neg  == Len(s) > 0 /\ Char(s, 1) = "-"
        body == IF sgn THEN Tail(s) ELSE s
        dots == {i \in 1..Len(body) : Char(body, i) = "."}
        dot  == IF dots = {} THEN Len(body) + 1 ELSE CHOOSE i \in dots : TRUE
        ip   == SubSeq(body, 1, dot - 1)
        fp   == SubSeq(body, dot + 1, Len(body))
    IN  IF /\ Cardinality(dots) <= 1
           /\ AllDigits(ip)
           /\ AllDigits(fp)
           /\ Len(ip) + Len(fp) > 0
        THEN Canon((IF neg THEN -1 ELSE 1) * DigitsVal(ip \o fp), Len(fp))
        ELSE NaNNum

IsZero(n) == ~n.nan /\ n.m = 0

RECURSIVE Pow10(_)
Pow10(n) == IF n = 0 THEN 1 ELSE 10 * Pow10(n - 1)

Abs(x) == IF x < 0 THEN -x ELSE x

RECURSIVE PadLeft(_, _)
PadLeft(s, n) == IF Len(s) >= n THEN s ELSE PadLeft("0" \o s, n)

\* f"{x:.4f}".  A number of more than four decimals is rounded half to even
\* on its decimal digits.
FormatFixed4(n) ==
    LET scaled ==
            IF n.e <= 4 THEN Abs(n.m) * Pow10(4 - n.e)
            ELSE LET d  == Pow10(n.e - 4)
                     q  == Abs(n.m) \div d
                     r2 == 2 * (Abs(n.m) % d)
                 IN  IF r2 > d \/ (r2 = d /\ q % 2 = 1) THEN q + 1 ELSE q
    IN  (IF n.m < 0 THEN "-" ELSE "")
        \o ToString(scaled \div 10000) \o "." \o PadLeft(ToString(scaled % 10000), 4)

\* f"{x}" of a float: the shortest decimal, with ".0" for a whole number
FormatFloat(n) ==
    (IF n.m < 0 THEN "-" ELSE "")
    \o ToString(Abs(n.m) \div Pow10(n.e))
    \o "."
    \o (IF n.e = 0 THEN "0" ELSE PadLeft(ToString(Abs(n.m) % Pow10(n.e)), n.e))

(***************************************************************************)
(* The pages the server gives in a run (Spec).                             *)
(***************************************************************************)
HeaderRow ==
    <<"Date - Time (Philippine Time)", "Latitude (ºN)", "Longitude (ºE)",
      "Depth (km)", "Mag", "Location">>

LayoutTable == [cols |-> 2, rows |-> << <<"Earthquake Bulletins", NaN>> >>]

\* a month page as the agency publishes it: a layout table, then the events
UsualPage ==
    << LayoutTable,
       [cols |-> 6,
        rows |-> << HeaderRow,
                    <<"05 March 2023 - 10:41 PM", "09.87", "126.31", "012", "2.4",
                      "025 km N 41 E of Burgos (Surigao Del Norte)">> >>] >>

\* a month page whose rows are all placeholders
JunkPage ==
    << [cols |-> 6,
        rows |-> << <<"07 March 2023 - 02:00 AM", "0.0", "0", "010", "2.0", "-">>,
                    <<"07 March 2023 - 03:00 AM", "10.11", "125.00", "---", "2.2",
                      "Leyte">> >>] >>

\* a page whose first wide table has five columns; a six-column table follows
FiveColPage ==
    << [cols |-> 5,
        rows |-> << <<"08 March 2023 - 02:00 AM", "10.11", "125.00", "010", "2.0">> >>],
       [cols |-> 6,
        rows |-> << <<"08 March 2023 - 02:00 AM", "10.11", "125.00", "010", "2.0",
                      "Leyte">> >>] >>

\* a page whose only rows are header and footer rows
HeaderOnlyPage ==
    << [cols |-> 6,
        rows |-> << HeaderRow,
                    <<"Total No. of Events: 0", NaN, NaN, NaN, NaN, NaN>> >>] >>

\* a page with no table: read_html raises ValueError
NoTablePage == << >>

\* the front page: the latest events, in a table of seven columns
FrontPage ==
    << LayoutTable,
       [cols |-> 7,
        rows |-> << <<"today - 08:30 AM", "13.75", "120.62", "105", "3.1",
                      "011 km S 60 W of Calatagan (Batangas)", "details">>,
                    <<"today - 09:05 AM", "0.0", "120.62", "033", "4.0",
                      "Molucca Sea", "details">> >>] >>

ArchivePages == {UsualPage, JunkPage, FiveColPage, HeaderOnlyPage, NoTablePage}

FrontPages == {FrontPage, FiveColPage}

\* The texts of the pages of a run, converted and formatted once.
CellsOfTable(t) == UNION {{t.rows[r][k] : k \in 1..t.cols} : r \in 1..Len(t.rows)}

CellsOfPage(p) == UNION {CellsOfTable(p[t]) : t \in 1..Len(p)}

RunCells == UNION {CellsOfPage(p) : p \in ArchivePages \cup FrontPages}

NumericOfCell == [c \in RunCells |-> ParseNumeric(c)]

\* pd.to_numeric(..., errors='coerce') on one cell
ToNumeric(c) == IF c \in DOMAIN NumericOfCell THEN NumericOfCell[c] ELSE ParseNumeric(c)

TextOfNumber ==
    [n \in {NumericOfCell[c] : c \in RunCells} \ {NaNNum} |->
        [fixed4 |-> FormatFixed4(n), float |-> FormatFloat(n)]]

Fmt4(n) == IF n \in DOMAIN TextOfNumber THEN TextOfNumber[n].fixed4 ELSE FormatFixed4(n)

FmtFloat(n) == IF n \in DOMAIN TextOfNumber THEN TextOfNumber[n].float ELSE FormatFloat(n)

(***************************************************************************)
(* Frames.  A month attempt returns None or a frame (a sequence of rows).  *)
(***************************************************************************)
None == [isNone |-> TRUE, rows |-> <<>>]

Frame(rows) == [isNone |-> FALSE, rows |-> rows]

\* "df is None or df.empty"
IsEmpty(d) == d.isNone \/ Len(d.rows) = 0

(***************************************************************************)
(* The table pipeline of a month page (scrape_phivolcs_data_from_html) and *)
(* of the front page (scrape_current_month_from_main_page): the two hold   *)
(* the same code, line for line.                                           *)
(***************************************************************************)
\* A variant of FindTable that asks for the six columns the schema needs.
FindTableSixColumns(tbls) ==
    LET wide == {i \in 1..Len(tbls) : tbls[i].cols >= 6}
    IN  IF wide = {} THEN 0 ELSE CHOOSE i \in wide : \A j \in wide : i <= j

\* for table in tables: if table.shape[1] >= 5: df = table; break
\* The position of the table picked, 0 when df stays None.
FindTable(tbls) ==
    LET wide == {i \in 1..Len(tbls) : tbls[i].cols >= 5}
    IN  IF wide = {} THEN 0 ELSE CHOOSE i \in wide : \A j \in wide : i <= j

\* if df.shape[1] == 6 ... elif df.shape[1] > 6: df.iloc[:, :6] ... else: return None
SetColumns(t) ==
    IF t.cols = 6 THEN Frame(t.rows)
    ELSE IF t.cols > 6
         THEN Frame([r \in 1..Len(t.rows) |-> SubSeq(t.rows[r], 1, 6)])
         ELSE None

\* the header-row mask over Date-Time, Latitude and Longitude
HeaderMask(row) ==
    \/ ContainsNoCase(<<"Date", "Time", "Philippine">>, AsStr(row[1]))
    \/ ContainsNoCase(<<"Latitude", "ºN", "°N">>, AsStr(row[2]))
    \/ ContainsNoCase(<<"Longitude", "ºE", "°E">>, AsStr(row[3]))

\* first_col = df.iloc[:, 0].astype(str).str.strip()
FirstCol(row) == Strip(AsStr(row[1]))

SummaryMask(row) == ReSearch(<<"total", "no. of events">>, Lower(FirstCol(row)))

MonthAbbrevMask(row) == MatchMonthAbbrev(FirstCol(row))

\* dropna(how='all') drops a row whose cells are all missing
AllNa(row) == \A k \in 1..Len(row) : IsNa(row[k])

KeepNotHeader(row) == ~HeaderMask(row)
KeepNotSummary(row) == ~(SummaryMask(row) \/ MonthAbbrevMask(row))
KeepNotAllNa(row) == ~AllNa(row)

\* the three row filters, in the order of the code
FilterRows(rows) ==
    LET a == SelectSeq(rows, KeepNotHeader)
        b == IF Len(a) # 0 THEN SelectSeq(a, KeepNotSummary) ELSE a
    IN  SelectSeq(b, KeepNotAllNa)

\* df['Month'] = ...; df['Year'] = ...
AddMeta(rows, month, yr) ==
    [r \in 1..Len(rows) |->
        [DateTime  |-> rows[r][1], Latitude |-> rows[r][2], Longitude |-> rows[r][3],
         Depth     |-> rows[r][4], Magnitude |-> rows[r][5], Location |-> rows[r][6],
         Month     |-> month, Year |-> yr]]

\* From the tables read_html parsed to the rows that survive: the table
\* picked, its columns set, its rows filtered.  read_html raises when the
\* page holds no table at all, and the except clause returns None.
ScrapeTable(tbls) ==
    IF Len(tbls) = 0 THEN None
    ELSE LET i == FindTable(tbls)
         IN  IF i = 0 THEN None
             ELSE IF Len(tbls[i].rows) = 0 THEN None
             ELSE LET f == SetColumns(tbls[i])
                  IN  IF f.isNone THEN None ELSE Frame(FilterRows(f.rows))

\* ScrapeTable of the pages of a run, evaluated once
ScrapedPages == [p \in ArchivePages \cup FrontPages |-> ScrapeTable(p)]

\* the frame a page gives, with the Month and Year columns
ParseTables(tbls, month, yr) ==
    LET f == IF tbls \in DOMAIN ScrapedPages THEN ScrapedPages[tbls] ELSE ScrapeTable(tbls)
    IN  IF f.isNone THEN None ELSE Frame(AddMeta(f.rows, month, yr))

(***************************************************************************)
(* Responses.  A request ends "ok" with the tables of the page, "404",     *)
(* "http_error" (another status raise_for_status rejects) or "error" (a    *)
(* transport error or the 15 s timeout).                                   *)
(***************************************************************************)
Response(status, tbls) == [status |-> status, tables |-> tbls]

\* scrape_current_month_from_main_page: every failure, a 404 included, is
\* caught by "except Exception" and gives None.
scrape_current_month_from_main_page(resp, clock) ==
    IF resp.status = "ok"
    THEN ParseTables(resp.tables, MONTH_NAMES[clock.month], clock.year)
    ELSE None

\* scrape_phivolcs_data_from_html: front is the answer the front page gives
\* if it is asked.
scrape_phivolcs_data_from_html(yr, month_name, resp, front, clock) ==
    IF resp.status = "ok" THEN ParseTables(resp.tables, month_name, yr)
    ELSE IF resp.status = "404" THEN scrape_current_month_from_main_page(front, clock)
    ELSE None

\* the requests one call of scrape_phivolcs_data_from_html issues
RequestsOf(resp) ==
    IF resp.status = "404" THEN <<"archive", "front">> ELSE <<"archive">>

(***************************************************************************)
(* The cleaner (scrape_year_data, after the month loop).  A row of a       *)
(* frame carries its index label idx; masks are functions from index       *)
(* labels to BOOLEAN, and pandas aligns two masks on their labels.         *)
(***************************************************************************)
RECURSIVE Flatten(_)
Flatten(dfs) == IF Len(dfs) = 0 THEN <<>> ELSE Head(dfs).rows \o Flatten(Tail(dfs))

\* pd.concat(all_data, ignore_index=True), the column names lower-cased,
\* and the four numeric columns passed through pd.to_numeric
ConcatLowerNumeric(dfs) ==
    LET flat == Flatten(dfs)
    IN  [k \in 1..Len(flat) |->
            [idx       |-> k - 1,
             date_time |-> flat[k].DateTime,
             latitude  |-> ToNumeric(flat[k].Latitude),
             longitude |-> ToNumeric(flat[k].Longitude),
             depth     |-> ToNumeric(flat[k].Depth),
             magnitude |-> ToNumeric(flat[k].Magnitude),
             location  |-> flat[k].Location,
             month     |-> flat[k].Month,
             year      |-> flat[k].Year]]

Labels(rows) == {rows[k].idx : k \in 1..Len(rows)}

RowAt(rows, i) == rows[CHOOSE k \in 1..Len(rows) : rows[k].idx = i]

\* combined_df[numeric_cols].isnull().any(axis=1), for one row
AnyNull(r) == r.latitude.nan \/ r.longitude.nan \/ r.depth.nan \/ r.magnitude.nan

NanMask(rows) == [i \in Labels(rows) |-> AnyNull(RowAt(rows, i))]

\* (combined_df['latitude'] == 0) & (combined_df['longitude'] == 0)
IsNullIsland(r) == IsZero(r.latitude) /\ IsZero(r.longitude)

NullIslandMask(rows) == [i \in Labels(rows) |-> IsNullIsland(RowAt(rows, i))]

\* ~a & b of two masks: aligned on the union of the labels, a label one
\* side lacks counts as False
NotAnd(a, b) ==
    [i \in (DOMAIN a) \cup (DOMAIN b) |->
        /\ i \in DOMAIN a /\ ~a[i]
        /\ i \in DOMAIN b /\ b[i]]

\* frame[mask]: the rows whose label the mask holds True
Where(rows, mask) ==
    LET Keep(r) == r.idx \in DOMAIN mask /\ mask[r.idx] IN SelectSeq(rows, Keep)

WhereNot(rows, mask) ==
    LET Keep(r) == ~(r.idx \in DOMAIN mask /\ mask[r.idx]) IN SelectSeq(rows, Keep)

\* removed_nan_rows = combined_df[nan_mask]
RemovedNan(rows) == Where(rows, NanMask(rows))

\* combined_df.dropna(subset=numeric_cols)
DropNa(rows) ==
    LET Keep(r) == ~AnyNull(r) IN SelectSeq(rows, Keep)

\* A variant of RemovedNullIsland that applies the (0,0) mask to the frame
\* as it was before dropna.
RemovedNullIslandUnmasked(rows) == Where(rows, NullIslandMask(rows))

\* removed_null_island_rows = combined_df[~nan_mask & null_island_mask],
\* combined_df being the frame after dropna
RemovedNullIsland(rows) ==
    LET kept == DropNa(rows)
    IN  Where(kept, NotAnd(NanMask(rows), NullIslandMask(kept)))

\* A variant of ValidRows without the (0,0) filter.
ValidRowsKeepNullIsland(rows) == DropNa(rows)

\* combined_df = combined_df[~null_island_mask]
ValidRows(rows) ==
    LET kept == DropNa(rows) IN WhereNot(kept, NullIslandMask(kept))

(***************************************************************************)
(* The id column.                                                          *)
(***************************************************************************)
\* f"{row['datetime']}-{row['latitude']:.4f}-{row['longitude']:.4f}-{row['magnitude']}"
MakeId(r) ==
    AsStr(r.date_time) \o "-" \o Fmt4(r.latitude) \o "-" \o Fmt4(r.longitude)
    \o "-" \o FmtFloat(r.magnitude)

\* rename, id, reorder: the frame scrape_year_data writes and returns.
\* (DataFrame.apply on a frame of no rows gives an empty Series, pandas 1.5
\* and later, so a year whose rows were all removed goes through.)
Finalize(rows) ==
    [k \in 1..Len(rows) |->
        [idx       |-> rows[k].idx,
         id        |-> MakeId(rows[k]),
         datetime  |-> rows[k].date_time,
         latitude  |-> rows[k].latitude,
         longitude |-> rows[k].longitude,
         depth_km  |-> rows[k].depth,
         magnitude |-> rows[k].magnitude,
         location  |-> rows[k].location,
         month     |-> rows[k].month,
         year      |-> rows[k].year]]

\* to_csv(index=False) / to_json(orient='records'): the records, without labels
Records(rows) ==
    [k \in 1..Len(rows) |->
        [id        |-> rows[k].id,        datetime  |-> rows[k].datetime,
         latitude  |-> rows[k].latitude,  longitude |-> rows[k].longitude,
         depth_km  |-> rows[k].depth_km,  magnitude |-> rows[k].magnitude,
         location  |-> rows[k].location,  month     |-> rows[k].month,
         year      |-> rows[k].year]]

\* pd.concat(all_years_data, ignore_index=True)
ConcatYears(dfs) ==
    LET flat == Flatten(dfs)
    IN  [k \in 1..Len(flat) |-> [flat[k] EXCEPT !.idx = k - 1]]

FrontResponses ==
    {Response("ok", page) : page \in FrontPages} \cup {Response("error", << >>)}

NoResponse == Response("error", << >>)

\* the readings of the clock a run starts under: in the first, a middle
\* and the last month of a year (the clock is taken not to pass a month
\* boundary during a run)
Clocks == {[year |-> 2024, month |-> m] : m \in {1, 7, 12}}

(***************************************************************************)
(* The run: scrape_multiple_years calling scrape_year_data for each year.  *)
(***************************************************************************)
current_year == now.year

start_year == current_year - years_back + 1

NoFiles == [y \in {} |-> << >>]

Init ==
    /\ now \in Clocks
    /\ years_back \in 1..MaxYearsBack
    /\ pc = "months"
    /\ year = now.year - years_back + 1
    /\ mi = 1
    /\ tables = << >>
    /\ df = None
    /\ all_data = << >>
    /\ successful_months = << >>
    /\ failed_months = << >>
    /\ current_month_found = FALSE
    /\ lastOutcome = "none"
    /\ lastFetch = << >>
    /\ anomalies = 0
    /\ combined_df = << >>
    /\ removed_nan_rows = << >>
    /\ removed_null_island_rows = << >>
    /\ files = NoFiles
    /\ all_years_data = << >>
    /\ scrape_summary = NoFiles
    /\ combined_all = None

\* A variant of RecordMonth whose failure branch sets the flag in any year.
RecordMonthAnyYear(succ, failed, found, yr, month_name, d, clock) ==
    IF ~IsEmpty(d)
    THEN [all_data_add |-> TRUE,
          successful   |-> Append(succ, month_name),
          failed       |-> failed,
          found        |-> found \/ (yr = clock.year /\ month_name = MONTH_NAMES[clock.month])]
    ELSE [all_data_add |-> FALSE,
          successful   |-> succ,
          failed       |-> Append(failed, month_name),
          found        |-> TRUE]

\* A variant of RecordMonth that records a failed month only in the
\* present year.
RecordMonthDropsFailure(succ, failed, found, yr, month_name, d, clock) ==
    IF ~IsEmpty(d)
    THEN [all_data_add |-> TRUE,
          successful   |-> Append(succ, month_name),
          failed       |-> failed,
          found        |-> found \/ (yr = clock.year /\ month_name = MONTH_NAMES[clock.month])]
    ELSE [all_data_add |-> FALSE,
          successful   |-> succ,
          failed       |-> IF yr = clock.year THEN Append(failed, month_name) ELSE failed,
          found        |-> found \/ (yr = clock.year /\ ~found)]

\* The month loop's bookkeeping after an attempt returned d (lines 213-225):
\* the two lists and the flag.
RecordMonth(succ, failed, found, yr, month_name, d, clock) ==
    IF ~IsEmpty(d)
    THEN [all_data_add |-> TRUE,
          successful   |-> Append(succ, month_name),
          failed       |-> failed,
          found        |-> found \/ (yr = clock.year /\ month_name = MONTH_NAMES[clock.month])]
    ELSE [all_data_add |-> FALSE,
          successful   |-> succ,
          failed       |-> Append(failed, month_name),
          found        |-> found \/ (yr = clock.year /\ ~found)]

\* the tables read_html parsed last in an attempt
ParsedIn(resp, front) ==
    IF resp.status = "ok" THEN resp.tables
    ELSE IF resp.status = "404" /\ front.status = "ok" THEN front.tables
    ELSE << >>

\* One turn of the month loop in which the month is attempted.
MonthAttempt(resp, front) ==
    /\ pc = "months"
    /\ mi \in 1..12
    /\ ~current_month_found
    /\ anomalies + (IF resp = Response("ok", UsualPage) THEN 0 ELSE 1) <= MaxAnomalies
    /\ LET month_name == MONTH_NAMES[mi]
           d   == scrape_phivolcs_data_from_html(year, month_name, resp, front, now)
           rec == RecordMonth(successful_months, failed_months, current_month_found,
                              year, month_name, d, now)
       IN  /\ df' = d
           /\ all_data' = IF rec.all_data_add THEN Append(all_data, d) ELSE all_data
           /\ successful_months' = rec.successful
           /\ failed_months' = rec.failed
           /\ current_month_found' = rec.found
    /\ tables' = ParsedIn(resp, front)
    /\ lastOutcome' = resp.status
    /\ lastFetch' = RequestsOf(resp)
    /\ anomalies' = anomalies + (IF resp = Response("ok", UsualPage) THEN 0 ELSE 1)
    /\ mi' = mi + 1
    /\ UNCHANGED <<now, years_back, pc, year, combined_df, removed_nan_rows,
                   removed_null_island_rows, files, all_years_data, scrape_summary,
                   combined_all>>

\* the archive answers with a page
MonthOk == \E page \in ArchivePages : MonthAttempt(Response("ok", page), NoResponse)

\* the archive answers 404: the front page is asked
MonthNotFound == \E front \in FrontResponses : MonthAttempt(Response("404", << >>), front)

\* the archive answers another error status
MonthHttpError == MonthAttempt(Response("http_error", << >>), NoResponse)

\* the request fails or times out
MonthTransportError == MonthAttempt(Response("error", << >>), NoResponse)

\* A variant of MonthSkip that skips one month only: the flag is cleared.
MonthSkipOnce ==
    /\ pc = "months"
    /\ mi \in 1..12
    /\ current_month_found
    /\ failed_months' = Append(failed_months, MONTH_NAMES[mi])
    /\ current_month_found' = FALSE
    /\ lastOutcome' = "skip"
    /\ lastFetch' = << >>
    /\ mi' = mi + 1
    /\ UNCHANGED <<now, years_back, pc, year, tables, df, all_data, successful_months,
                   anomalies, combined_df, removed_nan_rows,
                   removed_null_island_rows, files, all_years_data, scrape_summary,
                   combined_all>>

\* One turn of the month loop with current_month_found set (lines 206-209).
MonthSkip ==
    /\ pc = "months"
    /\ mi \in 1..12
    /\ current_month_found
    /\ failed_months' = Append(failed_months, MONTH_NAMES[mi])
    /\ lastOutcome' = "skip"
    /\ lastFetch' = << >>
    /\ mi' = mi + 1
    /\ UNCHANGED <<now, years_back, pc, year, tables, df, all_data, successful_months,
                   current_month_found, anomalies, combined_df, removed_nan_rows,
                   removed_null_island_rows, files, all_years_data, scrape_summary,
                   combined_all>>

\* A variant of FinishYear that writes the file only when a valid record
\* remains.
FinishYearOnlyIfValid ==
    /\ pc = "months"
    /\ mi = 13
    /\ pc' = "year_done"
    /\ IF Len(all_data) # 0
       THEN LET raw     == ConcatLowerNumeric(all_data)
                cleaned == Finalize(ValidRows(raw))
            IN  /\ removed_nan_rows' = RemovedNan(raw)
                /\ removed_null_island_rows' = RemovedNullIsland(raw)
                /\ combined_df' = cleaned
                /\ files' = IF Len(cleaned) # 0
                            THEN (year :> Records(cleaned)) @@ files
                            ELSE files
       ELSE /\ removed_nan_rows' = << >>
            /\ removed_null_island_rows' = << >>
            /\ combined_df' = << >>
            /\ files' = files
    /\ UNCHANGED <<now, years_back, year, mi, tables, df, all_data, successful_months,
                   failed_months, current_month_found, lastOutcome, lastFetch, anomalies,
                   all_years_data, scrape_summary, combined_all>>

\* After the loop (lines 230-317): clean, report, write the year's file.
FinishYear ==
    /\ pc = "months"
    /\ mi = 13
    /\ pc' = "year_done"
    /\ IF Len(all_data) # 0
       THEN LET raw     == ConcatLowerNumeric(all_data)
                cleaned == Finalize(ValidRows(raw))
            IN  /\ removed_nan_rows' = RemovedNan(raw)
                /\ removed_null_island_rows' = RemovedNullIsland(raw)
                /\ combined_df' = cleaned
                /\ files' = (year :> Records(cleaned)) @@ files
       ELSE /\ removed_nan_rows' = << >>
            /\ removed_null_island_rows' = << >>
            /\ combined_df' = << >>
            /\ files' = files
    /\ UNCHANGED <<now, years_back, year, mi, tables, df, all_data, successful_months,
                   failed_months, current_month_found, lastOutcome, lastFetch, anomalies,
                   all_years_data, scrape_summary, combined_all>>

\* scrape_year_data returns to the loop of scrape_multiple_years (lines
\* 340-347), which goes on to the next year, if any.
YearReturned ==
    /\ pc = "year_done"
    /\ IF Len(all_data) # 0
       THEN /\ all_years_data' = Append(all_years_data, Frame(combined_df))
            /\ scrape_summary' = (year :> Len(combined_df)) @@ scrape_summary
       ELSE /\ all_years_data' = all_years_data
            /\ scrape_summary' = (year :> 0) @@ scrape_summary
    /\ IF year < current_year
       THEN /\ pc' = "months"
            /\ year' = year + 1
            /\ mi' = 1
            /\ all_data' = << >>
            /\ successful_months' = << >>
            /\ failed_months' = << >>
            /\ current_month_found' = FALSE
            /\ lastOutcome' = "none"
            /\ lastFetch' = << >>
       ELSE /\ pc' = "combine"
            /\ UNCHANGED <<year, mi, all_data, successful_months, failed_months,
                           current_month_found, lastOutcome, lastFetch>>
    /\ UNCHANGED <<now, years_back, tables, df, anomalies, combined_df, removed_nan_rows,
                   removed_null_island_rows, files, combined_all>>

\* After the last year (lines 349-381): the combined dataset, written as
\* earthquakes.json and phivolcs_earthquake_all_years.csv.
FinishRun ==
    /\ pc = "combine"
    /\ pc' = "done"
    /\ combined_all' = IF Len(all_years_data) # 0
                       THEN Frame(ConcatYears(all_years_data))
                       ELSE None
    /\ UNCHANGED <<now, years_back, year, mi, tables, df, all_data, successful_months,
                   failed_months, current_month_found, lastOutcome, lastFetch, anomalies,
                   combined_df, removed_nan_rows, removed_null_island_rows, files,
                   all_years_data, scrape_summary>>

Next ==
    \/ MonthOk
    \/ MonthNotFound
    \/ MonthHttpError
    \/ MonthTransportError
    \/ MonthSkip
    \/ FinishYear
    \/ YearReturned
    \/ FinishRun

Spec == Init /\ [][Next]_vars

(***************************************************************************)
(* SpecCore: the table pipeline on a bounded universe of documents.  The   *)
(* last month of a past year is answered by the document drawn, and the    *)
(* year is then cleaned.                                                   *)
(***************************************************************************)
ScenarioRow == <<"Jan 1, 2024 - 03:00 AM", "14.5N", "121.0E", "10", "4.2", "Quezon City">>

PlainRow == <<"Jan 1, 2024 - 03:00 AM", "14.5", "121.0", "10", "4.2", "Quezon City">>

NullIslandRow == <<"Jan 2, 2024 - 04:10 PM", "0", "0.00", "33", "3.0", "Gulf of Guinea">>

DashZeroRow == <<"Jan 3, 2024 - 05:20 PM", "0", "0", "---", "2.1", NaN>>

\* latitude 0 alone does not make a null island
EquatorRow == <<"Jan 4, 2024 - 06:30 PM", "-0.0", "121.5", "7", "5", "Molucca Sea">>

AbbrevRow == <<"Jan-24", NaN, NaN, NaN, NaN, NaN>>

BlankRow == <<NaN, NaN, NaN, NaN, NaN, NaN>>

TotalRow == <<" Total No. of Events: 31 ", NaN, NaN, NaN, NaN, NaN>>

CoreRows ==
    {ScenarioRow, PlainRow, NullIslandRow, DashZeroRow, EquatorRow, HeaderRow, AbbrevRow,
     BlankRow, TotalRow}

SeqsUpTo(S, n) == UNION {[1..k -> S] : k \in 0..n}

\* documents of one six-column table, over the rows above
ContentDocs == {<< [cols |-> 6, rows |-> rs] >> : rs \in SeqsUpTo(CoreRows, MaxRows)}

\* documents of several tables of 4 to 7 columns, each empty or holding a
\* header row and an event row whose Depth cell is the table's position
ColChoices == {4, 5, 6, 7}

WideRow(k) ==
    <<"Feb 2, 2024 - 01:00 AM", "14.5", "121.0", ToString(k), "4.2", "Quezon City", "more">>

ShapedTable(k, shape) ==
    [cols |-> shape[1],
     rows |-> IF shape[2]
              THEN << SubSeq(HeaderRow \o <<"Remarks">>, 1, shape[1]),
                      SubSeq(WideRow(k), 1, shape[1]) >>
              ELSE << >>]

SelectionDocs ==
    {[k \in 1..Len(shapes) |-> ShapedTable(k, shapes[k])] :
        shapes \in SeqsUpTo(ColChoices \X BOOLEAN, MaxTables)}

CoreDocs == ContentDocs \cup SelectionDocs

CoreInit ==
    /\ now = [year |-> 2024, month |-> 7]
    /\ years_back = 2
    /\ pc = "months"
    /\ year = 2023
    /\ mi = 12
    /\ tables \in CoreDocs
    /\ df = None
    /\ all_data = << >>
    /\ successful_months = << >>
    /\ failed_months = << >>
    /\ current_month_found = FALSE
    /\ lastOutcome = "none"
    /\ lastFetch = << >>
    /\ anomalies = 0
    /\ combined_df = << >>
    /\ removed_nan_rows = << >>
    /\ removed_null_island_rows = << >>
    /\ files = NoFiles
    /\ all_years_data = << >>
    /\ scrape_summary = NoFiles
    /\ combined_all = None

\* the archive answers the month with the document drawn
CoreMonth ==
    /\ all_data = << >>
    /\ MonthAttempt(Response("ok", tables), NoResponse)

CoreNext == CoreMonth \/ FinishYear

SpecCore == CoreInit /\ [][CoreNext]_vars

(***************************************************************************)
(* Properties.                                                             *)
(***************************************************************************)
Range(seq) == {seq[k] : k \in 1..Len(seq)}

MonthIndex(name) == CHOOSE k \in 1..12 : MONTH_NAMES[k] = name

Increasing(months) ==
    \A a, b \in 1..Len(months) : a < b => MonthIndex(months[a]) < MonthIndex(months[b])

CellsOfRow(r) == <<r.DateTime, r.Latitude, r.Longitude, r.Depth, r.Magnitude, r.Location>>

\* C1: when the monthly archive answers 404 the front page is fetched in its
\* place and the loop enters SKIP_REMAINDER (with C7, no later month of the
\* year then causes a fetch).
C1_NotFoundEntersSkipRemainder ==
    (pc = "months" /\ lastOutcome = "404") =>
        /\ lastFetch = <<"archive", "front">>
        /\ (mi <= 12 => current_month_found)

\* how often a row occurs in the six-column table of a one-table document
InputCount(row) ==
    IF Len(tables) = 1 /\ tables[1].cols = 6
    THEN Cardinality({j \in 1..Len(tables[1].rows) : tables[1].rows[j] = row})
    ELSE 0

\* where a row occurs in the frame the normalizer returned
FramePositions(row) == {k \in 1..Len(df.rows) : CellsOfRow(df.rows[k]) = row}

InValid(label) == \E k \in 1..Len(combined_df) : combined_df[k].idx = label

InRemovedNan(label) == \E k \in 1..Len(removed_nan_rows) : removed_nan_rows[k].idx = label

InRemovedNullIsland(label) ==
    \E k \in 1..Len(removed_null_island_rows) : removed_null_island_rows[k].idx = label

ValidAs(label, depth, magnitude) ==
    \E k \in 1..Len(combined_df) :
        /\ combined_df[k].idx = label
        /\ combined_df[k].depth_km = depth
        /\ combined_df[k].magnitude = magnitude

\* C2, as claimed: the row ["Jan 1, 2024 - 03:00 AM", "14.5N", "121.0E", "10",
\* "4.2", "Quezon City"] of a six-column table survives the row filters and,
\* after the cleaner, is in the valid set with depth_km = 10.0 and
\* magnitude = 4.2, and in neither removed set.
C2_ScenarioRowIsValid ==
    (pc = "year_done" /\ InputCount(ScenarioRow) > 0) =>
        /\ Cardinality(FramePositions(ScenarioRow)) = InputCount(ScenarioRow)
        /\ \A k \in FramePositions(ScenarioRow) :
              /\ ValidAs(k - 1, Dec(10, 0), Dec(42, 1))
              /\ ~InRemovedNan(k - 1)
              /\ ~InRemovedNullIsland(k - 1)

\* C2, amended: that row survives the row filters and the cleaner removes it
\* for missing data ("14.5N" and "121.0E" are not numbers); the row with
\* latitude "14.5" and longitude "121.0" instead is in the valid set with
\* depth_km = 10.0 and magnitude = 4.2, and in neither removed set.
C2_ScenarioRowRemovedAsMissing ==
    pc = "year_done" =>
        /\ InputCount(ScenarioRow) > 0 =>
              /\ Cardinality(FramePositions(ScenarioRow)) = InputCount(ScenarioRow)
              /\ \A k \in FramePositions(ScenarioRow) :
                    /\ InRemovedNan(k - 1)
                    /\ ~InValid(k - 1)
                    /\ ~InRemovedNullIsland(k - 1)
        /\ InputCount(PlainRow) > 0 =>
              /\ Cardinality(FramePositions(PlainRow)) = InputCount(PlainRow)
              /\ \A k \in FramePositions(PlainRow) :
                    /\ ValidAs(k - 1, Dec(10, 0), Dec(42, 1))
                    /\ ~InRemovedNan(k - 1)
                    /\ ~InRemovedNullIsland(k - 1)

C2_Witness ==
    /\ pc = "year_done"
    /\ InputCount(ScenarioRow) > 0
    /\ InputCount(PlainRow) > 0
    /\ Len(removed_nan_rows) = 1
    /\ Len(combined_df) = 1

\* C3, as claimed: a year's file is written only when a valid record remains
\* for the year after cleaning.
C3_NoFileWithoutValidRecord == \A y \in DOMAIN files : Len(files[y]) > 0

\* C3, amended: a year's file is written, when the month loop has ended,
\* exactly when at least one month of the year returned a non-empty table;
\* it holds the records left after cleaning, which may be none.
C3_FileIffSomeMonthSucceeded ==
    /\ pc = "months" => year \notin DOMAIN files
    /\ pc = "year_done" =>
          /\ year \in DOMAIN files <=> Len(successful_months) > 0
          /\ year \in DOMAIN files => files[year] = Records(combined_df)

C3_Witness ==
    /\ pc = "year_done"
    /\ year \in DOMAIN files
    /\ Len(files[year]) = 0
    /\ Len(removed_nan_rows) + Len(removed_null_island_rows) > 0

Complete(r) ==
    ~r.latitude.nan /\ ~r.longitude.nan /\ ~r.depth_km.nan /\ ~r.magnitude.nan

AtOrigin(r) == r.latitude.m = 0 /\ r.longitude.m = 0

AllAccepted(rows) == \A k \in 1..Len(rows) : Complete(rows[k]) /\ ~AtOrigin(rows[k])

\* C4: every record of a year dataset returned or written by
\* scrape_year_data, and of the combined dataset, has latitude, longitude,
\* depth_km and magnitude present, and is not at latitude 0, longitude 0.
C4_RecordsCompleteNotNullIsland ==
    /\ pc = "year_done" =>
          /\ AllAccepted(combined_df)
          /\ year \in DOMAIN files => AllAccepted(files[year])
    /\ pc \in {"combine", "done"} =>
          \A i \in 1..Len(all_years_data) : AllAccepted(all_years_data[i].rows)
    /\ (pc = "done" /\ ~combined_all.isNone) => AllAccepted(combined_all.rows)

C4_Witness ==
    /\ pc = "done"
    /\ ~combined_all.isNone
    /\ Len(combined_all.rows) > 0
    /\ Len(removed_nan_rows) > 0
    /\ Len(removed_null_island_rows) > 0

\* the rows the cleaner was given: the frames of the successful months
RawRows == Flatten(all_data)

RawNumbers(r) ==
    {ToNumeric(r.Latitude), ToNumeric(r.Longitude), ToNumeric(r.Depth),
     ToNumeric(r.Magnitude)}

RawMissing(r) == \E n \in RawNumbers(r) : n.nan

RawAtOrigin(r) == ToNumeric(r.Latitude).m = 0 /\ ToNumeric(r.Longitude).m = 0

Occurrences(rows, label) == Cardinality({k \in 1..Len(rows) : rows[k].idx = label})

\* C5: the cleaner partitions the year's raw rows: each row ends in exactly
\* one of the valid set, the removed-for-missing-data set and the
\* removed-for-null-island set; a row with a missing numeric field is counted
\* as missing data only, a complete row at (0,0) as null island only.
C5_RemovalIsPartition ==
    (pc = "year_done" /\ Len(all_data) # 0) =>
        /\ Labels(combined_df) \cup Labels(removed_nan_rows)
              \cup Labels(removed_null_island_rows) = 0..(Len(RawRows) - 1)
        /\ \A k \in 1..Len(RawRows) :
              /\ Occurrences(combined_df, k - 1) + Occurrences(removed_nan_rows, k - 1)
                    + Occurrences(removed_null_island_rows, k - 1) = 1
              /\ RawMissing(RawRows[k]) => InRemovedNan(k - 1)
              /\ (~RawMissing(RawRows[k]) /\ RawAtOrigin(RawRows[k]))
                    => InRemovedNullIsland(k - 1)
              /\ (~RawMissing(RawRows[k]) /\ ~RawAtOrigin(RawRows[k])) => InValid(k - 1)

\* a row at (0,0) with a missing depth went to missing data, beside a
\* complete row at (0,0) that went to null island
C5_Witness ==
    /\ pc = "year_done"
    /\ Len(removed_null_island_rows) = 1
    /\ \E k \in 1..Len(removed_nan_rows) :
          IsZero(removed_nan_rows[k].latitude) /\ IsZero(removed_nan_rows[k].longitude)

\* C6: in state ACTIVE, a month that ends in OtherFailure or an Empty result
\* is recorded as failed; the loop enters SKIP_REMAINDER exactly when the
\* year is the current calendar year, and otherwise stays ACTIVE.
C6_FailureSkipsOnlyInCurrentYear ==
    [][ ( /\ pc = "months" /\ mi \in 1..12 /\ ~current_month_found
          /\ mi' = mi + 1
          /\ \/ lastOutcome' \in {"http_error", "error"}
             \/ lastOutcome' = "ok" /\ IsEmpty(df') )
        => /\ failed_months' = Append(failed_months, MONTH_NAMES[mi])
           /\ successful_months' = successful_months
           /\ all_data' = all_data
           /\ current_month_found' <=> (year = now.year) ]_vars

\* an earlier year's month failed and the loop stayed ACTIVE
C6_Witness ==
    /\ pc = "months"
    /\ lastOutcome \in {"http_error", "error"}
    /\ year < now.year
    /\ mi \in 2..12
    /\ ~current_month_found
    /\ failed_months = <<MONTH_NAMES[mi - 1]>>

\* C7: SKIP_REMAINDER is terminal within a year: each remaining month is
\* recorded as failed with no request issued, and the state does not return
\* to ACTIVE before the year's iteration ends.
C7_SkipRemainderIsTerminal ==
    [][ (pc = "months" /\ current_month_found) =>
           /\ current_month_found'
           /\ year' = year
           /\ all_data' = all_data
           /\ successful_months' = successful_months
           /\ mi <= 12 =>
                 /\ pc' = "months"
                 /\ mi' = mi + 1
                 /\ lastFetch' = << >>
                 /\ failed_months' = Append(failed_months, MONTH_NAMES[mi])
           /\ mi = 13 => pc' = "year_done" /\ failed_months' = failed_months ]_vars

\* the loop skipped through to the end of the year, at least two months
C7_Witness ==
    /\ pc = "months"
    /\ mi = 13
    /\ current_month_found
    /\ lastOutcome = "skip"
    /\ Len(successful_months) + 2 < Len(failed_months)

\* the progress of a run: years done, then the position in the year
Rank ==
    (year - start_year) * 20
    + (CASE pc = "months"    -> mi
         [] pc = "year_done" -> 14
         [] pc = "combine"   -> 15
         [] OTHER            -> 16)

Done == pc = "done"

\* some action of Next can be taken (FinishYear by its guard)
CanStep ==
    \/ ENABLED (MonthOk \/ MonthNotFound \/ MonthHttpError \/ MonthTransportError
                   \/ MonthSkip \/ YearReturned \/ FinishRun)
    \/ (pc = "months" /\ mi = 13)

C8_MonthsAndYearsAccounted ==
    /\ pc \in {"months", "year_done"} =>
          /\ Len(successful_months) + Len(failed_months) = mi - 1
          /\ Range(successful_months) \cap Range(failed_months) = {}
          /\ Range(successful_months) \cup Range(failed_months)
                = {MONTH_NAMES[k] : k \in 1..(mi - 1)}
          /\ Increasing(successful_months)
          /\ Increasing(failed_months)
          /\ DOMAIN scrape_summary = start_year..(year - 1)
    /\ pc \in {"year_done", "combine", "done"} => mi = 13
    /\ pc \in {"combine", "done"} => DOMAIN scrape_summary = start_year..current_year
    /\ Done \/ CanStep

WideTables == {i \in 1..Len(tables) : tables[i].cols >= 5}

FirstWide == CHOOSE i \in WideTables : \A j \in WideTables : i <= j

FirstSix(rows) == [r \in 1..Len(rows) |-> SubSeq(rows[r], 1, 6)]

FrameCells == [k \in 1..Len(df.rows) |-> CellsOfRow(df.rows[k])]

\* C9: the normalizer picks the first table, in document order, of at least
\* 5 columns and looks at no later table: with no such table the result is
\* Empty; a picked table of more than 6 columns is cut to its first 6; a
\* picked table of exactly 5 columns gives Empty, also when a later table has
\* 6 columns or more.
C9_FirstWideTableOnly ==
    lastOutcome = "ok" =>
        /\ WideTables = {} => df.isNone
        /\ WideTables # {} =>
              /\ tables[FirstWide].cols = 5 => df.isNone
              /\ Len(tables[FirstWide].rows) = 0 => df.isNone
              /\ (tables[FirstWide].cols >= 6 /\ Len(tables[FirstWide].rows) # 0) =>
                    /\ ~df.isNone
                    /\ FrameCells = FilterRows(FirstSix(tables[FirstWide].rows))

\* a five-column table came first and a table of six or more columns, with
\* rows, came later
C9_Witness ==
    /\ lastOutcome = "ok"
    /\ Len(tables) >= 2
    /\ tables[1].cols = 5
    /\ \E i \in 2..Len(tables) : tables[i].cols >= 6 /\ Len(tables[i].rows) # 0
    /\ df.isNone

\* C10: every record of the dataset built and written for year Y carries
\* year = Y and the month label of the month whose attempt produced it.
C10_RecordsCarryYearAndMonth ==
    /\ pc \in {"months", "year_done"} =>
          \A i \in 1..Len(all_data) : \A k \in 1..Len(all_data[i].rows) :
              /\ all_data[i].rows[k].Year = year
              /\ all_data[i].rows[k].Month = successful_months[i]
    /\ \A y \in DOMAIN files : \A k \in 1..Len(files[y]) : files[y][k].year = y

====
